---- MODULE Spec2Model ----
(***************************************************************************)
(* video/get_video_ls.py: one run of main() as a state machine.            *)
(*                                                                         *)
(* The browser, the page it shows and the file system are the environment: *)
(* every call into selenium (webdriver.Edge, driver.get, execute_script,   *)
(* find_element, get_attribute) and into pandas/pathlib (mkdir, to_csv)    *)
(* either succeeds or raises, chosen nondeterministically.                 *)
(* time.sleep and print change no state and are left out.                  *)
(* Strings that the code takes apart (the href) are sequences of           *)
(* one-character strings; the other page texts are opaque values.          *)
(***************************************************************************)
EXTENDS Integers, Sequences, FiniteSets, TLC

\* ---- bounds of the model ----
MaxAuthors == 2        \* longest author list
MaxVideos == 3         \* largest max_videos_per_author
MaxRows == 4           \* most rows a whole run is sized for: Len(authors) * max_videos
MaxPage == 3           \* most video cards on a page
MaxScroll == 1         \* largest scroll_steps.max

\* ---- program constants ----
ScrollPxMin == 300
ScrollPxMax == 1200

VARIABLES
    authors,      \* load_authors(...): the ordered author list
    max_videos,   \* config["max_videos_per_author"]
    scroll_min,   \* config["scroll_steps"]["min"]
    scroll_max,   \* config["scroll_steps"]["max"]
    pc,           \* position of the single control thread
    session,      \* the browser: "none", "open" or "closed"
    opened,       \* number of browser instances launched
    quits,        \* number of driver.quit() calls
    author_i,     \* 1-based index of the author of the for loop in main
    navigated,    \* author ids whose upload page driver.get was asked for
    steps,        \* human_scroll: the drawn step count
    scrolled,     \* human_scroll: scrollBy commands issued by this call
    tops,         \* human_scroll: scrollTo(0, 0) commands issued by this call
    lastCmd,      \* the last script handed to driver.execute_script
    dom,          \* the page the element lookups read
    rank,         \* collect_for_author: loop variable
    collected,    \* collect_for_author: the list being built
    lookedUp,     \* ranks at which this call did a find_element
    returned,     \* the lists returned by collect_for_author, in call order
    rows,         \* main: the accumulator
    df,           \* write_outputs: the DataFrame
    write_calls,  \* number of write_outputs calls
    out_i,        \* write_outputs: 1-based index into outputs
    files,        \* the output files
    error         \* the exception in flight, "none" when there is none

vars == <<authors, max_videos, scroll_min, scroll_max, pc, session, opened,
          quits, author_i, navigated, steps, scrolled, tops, lastCmd, dom,
          rank, collected, lookedUp, returned, rows, df, write_calls, out_i,
          files, error>>

configVars == <<authors, max_videos, scroll_min, scroll_max>>
scrollVars == <<steps, scrolled, tops, lastCmd>>
extractVars == <<dom, rank, collected, lookedUp>>
writeVars == <<df, write_calls, out_i, files>>
browserVars == <<navigated, scrolled, tops, lastCmd, lookedUp>>

\* ---- inputs ----

\* Entries of the author list: author_id is required, category optional.
AuthorRefs ==
    { [author_id |-> "u1", category |-> "a"],
      [author_id |-> "u2"],
      [category |-> "a"] }

SeqsUpTo(S, n) == UNION { [1..k -> S] : k \in 0..n }

\* config["outputs"]
Outputs == <<"out1.csv", "sub/out2.csv">>

\* href attribute values of the cover link
Hrefs == { <<"v">>, <<"v", "?", "q", "?", "r">>, <<"?", "q">> }

\* How the lookups of one card behave: "none" = all four succeed,
\* "cover"/"title"/"subtitle"/"nickname" = that find_element raises,
\* "href" = get_attribute("href") returns None.
FailKinds == {"none", "cover", "href", "title", "subtitle", "nickname"}

Cards ==
    { [fail |-> "none", href |-> h, title |-> "t", subtitle |-> "d"] : h \in Hrefs }
    \cup
    { [fail |-> k, href |-> <<"v">>, title |-> "t", subtitle |-> "d"] :
        k \in FailKinds \ {"none"} }

\* Pages of at most n cards.
Pages(n) == { [nickname |-> "up", cards |-> c] : c \in SeqsUpTo(Cards, n) }

NoPage == [nickname |-> "", cards |-> <<>>]
NoCmd == [script |-> "none", inRange |-> TRUE]
NoDf == [columns |-> <<>>, data |-> <<>>]
Absent == [state |-> "absent", header |-> <<>>, data |-> <<>>]
Truncated == [state |-> "truncated", header |-> <<>>, data |-> <<>>]
Old == [state |-> "written", header |-> <<"old">>, data |-> <<>>]

\* The output paths before the run: the first does not exist, the second
\* holds the file of an earlier run.
InitFiles == [i \in 1..Len(Outputs) |-> IF i = 1 THEN Absent ELSE Old]

\* ---- pure helpers ----

Max(a, b) == IF a >= b THEN a ELSE b
Min(a, b) == IF a <= b THEN a ELSE b

\* A randint whose upper end is off by one.
RandIntPastEnd(a, b) == a..(b + 1)

\* random.randint(a, b): any integer of [a, b].
RandInt(a, b) == a..b

\* A range that includes its end.
RangeInclusive(a, b) == a..b

\* range(a, b)
Range(a, b) == a..(b - 1)

\* author.get(key, default)
Get(d, key, default) == IF key \in DOMAIN d THEN d[key] ELSE default

\* href.rsplit("?", 1)[0]: the part before the last "?".
SplitLast(s) ==
    LET qs == { i \in 1..Len(s) : s[i] = "?" }
        cut == IF qs = {} THEN Len(s) + 1
               ELSE CHOOSE i \in qs : \A j \in qs : i >= j
    IN SubSeq(s, 1, cut - 1)

\* href.split("?", 1)[0]: the part before the first "?".
SplitFirst(s) ==
    LET qs == { i \in 1..Len(s) : s[i] = "?" }
        cut == IF qs = {} THEN Len(s) + 1
               ELSE CHOOSE i \in qs : \A j \in qs : i <= j
    IN SubSeq(s, 1, cut - 1)

\* One rank's four lookups: TRUE when one of them raises.
LookupFails(page, r) ==
    \/ r > Len(page.cards)
    \/ page.cards[r].fail # "none"

\* The dict appended for a rank whose lookups succeeded.
Record(category, page, r) ==
    [category |-> category,
     author |-> page.nickname,
     rank |-> r,
     publish_date |-> page.cards[r].subtitle,
     title |-> page.cards[r].title,
     url |-> SplitFirst(page.cards[r].href)]

RecordKeys == <<"category", "author", "rank", "publish_date", "title", "url">>

\* pd.DataFrame(rows): the columns are the keys of the dicts, so a DataFrame
\* built from no dict has no column.
DataFrame(rs) ==
    [columns |-> IF rs = <<>> THEN <<>> ELSE RecordKeys, data |-> rs]

\* df.to_csv(target, index=False)
ToCsvFile(d) == [state |-> "written", header |-> d.columns, data |-> d.data]

\* ---- initial states ----

InitCommon ==
    /\ navigated = <<>>
    /\ steps = 0 /\ scrolled = 0 /\ tops = 0
    /\ lastCmd = NoCmd
    /\ dom = NoPage
    /\ rank = 1
    /\ collected = <<>>
    /\ lookedUp = {}
    /\ returned = <<>>
    /\ rows = <<>>
    /\ df = NoDf
    /\ write_calls = 0
    /\ out_i = 1
    /\ files = InitFiles
    /\ quits = 0
    /\ error = "none"

\* main() after load_config and load_authors.
Init ==
    /\ authors \in SeqsUpTo(AuthorRefs, MaxAuthors)
    /\ max_videos \in 0..MaxVideos
    /\ Len(authors) * max_videos <= MaxRows
    /\ scroll_min = 0
    /\ scroll_max = MaxScroll
    /\ pc = "build_driver"
    /\ session = "none"
    /\ opened = 0
    /\ author_i = 1
    /\ InitCommon

\* ---- main ----

\* build_driver: webdriver.Edge(options) may fail to launch; driver.get of
\* the landing page may raise after the browser exists. Neither is inside
\* the try of main, so both end the run at once.
BuildDriver ==
    /\ pc = "build_driver"
    /\ \/ /\ error' = "StartupError"
          /\ pc' = "aborted"
          /\ UNCHANGED <<session, opened>>
       \/ /\ session' = "open"
          /\ opened' = opened + 1
          /\ error' = "WebDriverException"
          /\ pc' = "aborted"
       \/ /\ session' = "open"
          /\ opened' = opened + 1
          /\ pc' = "loop"
          /\ UNCHANGED error
    /\ UNCHANGED <<configVars, quits, author_i, navigated, scrollVars,
                   extractVars, returned, rows, writeVars>>

\* for author in tqdm(authors): the next author, or the end of the try body.
ForAuthor ==
    /\ pc = "loop"
    /\ pc' = IF author_i <= Len(authors) THEN "collect" ELSE "finally"
    /\ UNCHANGED <<configVars, session, opened, quits, author_i, navigated,
                   scrollVars, extractVars, returned, rows, writeVars, error>>

\* ---- collect_for_author ----

\* author["author_id"], author.get("category", ""), driver.get(url).
Navigate ==
    /\ pc = "collect"
    /\ IF "author_id" \notin DOMAIN authors[author_i]
       THEN /\ error' = "KeyError"
            /\ pc' = "raise"
            /\ UNCHANGED navigated
       ELSE /\ navigated' = Append(navigated, authors[author_i].author_id)
            /\ \/ /\ error' = "WebDriverException"
                  /\ pc' = "raise"
               \/ /\ pc' = "human_scroll"
                  /\ UNCHANGED error
    /\ UNCHANGED <<configVars, session, opened, quits, author_i, scrollVars,
                   extractVars, returned, rows, writeVars>>

\* human_scroll: steps = random.randint(min_scrolls, max_scrolls)
HumanScroll ==
    /\ pc = "human_scroll"
    /\ steps' \in RandInt(scroll_min, scroll_max)
    /\ scrolled' = 0
    /\ tops' = 0
    /\ pc' = "scroll"
    /\ UNCHANGED <<configVars, session, opened, quits, author_i, navigated,
                   lastCmd, extractVars, returned, rows, writeVars, error>>

\* One iteration of the for loop of human_scroll. The command log keeps, of
\* the pixel argument, whether it lies in [300, 1200].
ScrollBy ==
    /\ pc = "scroll"
    /\ scrolled < steps
    /\ \/ \E px \in RandInt(ScrollPxMin, ScrollPxMax) :
            /\ lastCmd' = [script |-> "scrollBy",
                           inRange |-> (px >= 300 /\ px <= 1200)]
            /\ scrolled' = scrolled + 1
            /\ UNCHANGED <<pc, error>>
       \/ /\ error' = "WebDriverException"
          /\ pc' = "raise"
          /\ UNCHANGED <<lastCmd, scrolled>>
    /\ UNCHANGED <<configVars, session, opened, quits, author_i, navigated,
                   steps, tops, extractVars, returned, rows, writeVars>>

\* After the loop: window.scrollTo(0, 0), then human_scroll returns.
ScrollTop ==
    /\ pc = "scroll"
    /\ scrolled >= steps
    /\ \/ /\ lastCmd' = [script |-> "scrollTo", inRange |-> TRUE]
          /\ tops' = tops + 1
          /\ pc' = "collected"
          /\ UNCHANGED error
       \/ /\ error' = "WebDriverException"
          /\ pc' = "raise"
          /\ UNCHANGED <<lastCmd, tops>>
    /\ UNCHANGED <<configVars, session, opened, quits, author_i, navigated,
                   steps, scrolled, extractVars, returned, rows, writeVars>>

\* collected = []. The page the lookups will read is the one the browser
\* shows once scrolling has settled; of its cards the model keeps those a
\* loop over max_videos + 1 ranks could address. The locals of human_scroll
\* are gone.
BeginExtract ==
    /\ pc = "collected"
    /\ collected' = <<>>
    /\ rank' = 1
    /\ lookedUp' = {}
    /\ dom' \in Pages(Min(MaxPage, Max(max_videos, 0) + 1))
    /\ steps' = 0 /\ scrolled' = 0 /\ tops' = 0
    /\ pc' = "extract"
    /\ UNCHANGED <<configVars, session, opened, quits, author_i, navigated,
                   lastCmd, returned, rows, writeVars, error>>

\* The loop with "continue" in place of "break": a failed rank is skipped.
ExtractRankSkip ==
    /\ pc = "extract"
    /\ IF rank \in Range(1, max_videos + 1)
       THEN /\ lookedUp' = lookedUp \cup {rank}
            /\ rank' = rank + 1
            /\ collected' =
                  IF LookupFails(dom, rank) THEN collected
                  ELSE Append(collected,
                          Record(Get(authors[author_i], "category", ""), dom, rank))
            /\ UNCHANGED pc
       ELSE /\ pc' = "return"
            /\ UNCHANGED <<collected, rank, lookedUp>>
    /\ UNCHANGED <<configVars, session, opened, quits, author_i, navigated,
                   scrollVars, dom, returned, rows, writeVars, error>>

\* for rank in range(1, max_videos + 1): try the four lookups; break on any
\* exception, else append the record. The loop ends by break or exhaustion,
\* and the function returns collected.
ExtractRank ==
    /\ pc = "extract"
    /\ IF rank \in Range(1, max_videos + 1)
       THEN /\ lookedUp' = lookedUp \cup {rank}
            /\ IF LookupFails(dom, rank)
               THEN /\ pc' = "return"
                    /\ UNCHANGED <<collected, rank>>
               ELSE /\ collected' = Append(collected,
                          Record(Get(authors[author_i], "category", ""), dom, rank))
                    /\ rank' = rank + 1
                    /\ UNCHANGED pc
       ELSE /\ pc' = "return"
            /\ UNCHANGED <<collected, rank, lookedUp>>
    /\ UNCHANGED <<configVars, session, opened, quits, author_i, navigated,
                   scrollVars, dom, returned, rows, writeVars, error>>

\* ---- main, continued ----

\* rows = collect_for_author(...): the accumulator is overwritten.
ExtendRowsOverwrite ==
    /\ pc = "return"
    /\ rows' = collected
    /\ returned' = Append(returned, collected)
    /\ author_i' = author_i + 1
    /\ pc' = "loop"
    /\ UNCHANGED <<configVars, session, opened, quits, navigated, scrollVars,
                   extractVars, writeVars, error>>

\* rows.extend(collect_for_author(...))
ExtendRows ==
    /\ pc = "return"
    /\ rows' = rows \o collected
    /\ returned' = Append(returned, collected)
    /\ author_i' = author_i + 1
    /\ pc' = "loop"
    /\ UNCHANGED <<configVars, session, opened, quits, navigated, scrollVars,
                   extractVars, writeVars, error>>

\* main without the try/finally: driver.quit() only after a loop that ended
\* normally.
FinallyOnlyOnSuccess ==
    /\ pc \in {"finally", "raise"}
    /\ IF error = "none"
       THEN /\ quits' = quits + 1
            /\ session' = "closed"
            /\ pc' = "write_outputs"
       ELSE /\ pc' = "aborted"
            /\ UNCHANGED <<quits, session>>
    /\ UNCHANGED <<configVars, opened, author_i, navigated, scrollVars,
                   extractVars, returned, rows, writeVars, error>>

\* main that writes first and leaves the browser open meanwhile.
FinallyKeepsSession ==
    /\ pc \in {"finally", "raise"}
    /\ pc' = IF error = "none" THEN "write_outputs" ELSE "aborted"
    /\ UNCHANGED <<configVars, session, quits, opened, author_i, navigated,
                   scrollVars, extractVars, returned, rows, writeVars, error>>

\* main with "except Exception: pass" around the loop: the rows gathered so
\* far are written after a failed author.
FinallySwallows ==
    /\ pc \in {"finally", "raise"}
    /\ quits' = quits + 1
    /\ session' = "closed"
    /\ pc' = "write_outputs"
    /\ UNCHANGED <<configVars, opened, author_i, navigated, scrollVars,
                   extractVars, returned, rows, writeVars, error>>

\* finally: driver.quit(). An exception raised in the try body goes on
\* propagating afterwards; otherwise main goes on to write_outputs.
Finally ==
    /\ pc \in {"finally", "raise"}
    /\ quits' = quits + 1
    /\ session' = "closed"
    /\ pc' = IF error = "none" THEN "write_outputs" ELSE "aborted"
    /\ UNCHANGED <<configVars, opened, author_i, navigated, scrollVars,
                   extractVars, returned, rows, writeVars, error>>

\* write_outputs: df = pd.DataFrame(rows)
WriteOutputs ==
    /\ pc = "write_outputs"
    /\ df' = DataFrame(rows)
    /\ write_calls' = write_calls + 1
    /\ out_i' = 1
    /\ pc' = "to_csv"
    /\ UNCHANGED <<configVars, session, opened, quits, author_i, navigated,
                   scrollVars, extractVars, returned, rows, files, error>>

\* for out in outputs: mkdir, then to_csv. mkdir may raise before the file is
\* touched; to_csv may raise after it truncated the file.
ToCsv ==
    /\ pc = "to_csv"
    /\ IF out_i <= Len(Outputs)
       THEN \/ /\ files' = [files EXCEPT ![out_i] = ToCsvFile(df)]
               /\ out_i' = out_i + 1
               /\ UNCHANGED <<pc, error>>
            \/ /\ error' = "WriteError"
               /\ pc' = "aborted"
               /\ \/ UNCHANGED files
                  \/ files' = [files EXCEPT ![out_i] = Truncated]
               /\ UNCHANGED out_i
       ELSE /\ pc' = "done"
            /\ UNCHANGED <<files, out_i, error>>
    /\ UNCHANGED <<configVars, session, opened, quits, author_i, navigated,
                   scrollVars, extractVars, returned, rows, df, write_calls>>

Next ==
    \/ BuildDriver
    \/ ForAuthor
    \/ Navigate
    \/ HumanScroll
    \/ ScrollBy
    \/ ScrollTop
    \/ BeginExtract
    \/ ExtractRank
    \/ ExtendRows
    \/ Finally
    \/ WriteOutputs
    \/ ToCsv

Spec == Init /\ [][Next]_vars

\* ---- one call of collect_for_author on an open session ----

InitCollect ==
    /\ authors \in { <<a>> : a \in AuthorRefs }
    /\ max_videos \in (-1)..MaxVideos
    /\ scroll_min \in 0..MaxScroll
    /\ scroll_max \in scroll_min..MaxScroll
    /\ pc = "collect"
    /\ session = "open"
    /\ opened = 1
    /\ author_i = 1
    /\ InitCommon

NextCollect ==
    \/ Navigate
    \/ HumanScroll
    \/ ScrollBy
    \/ ScrollTop
    \/ BeginExtract
    \/ ExtractRank

SpecCollect == InitCollect /\ [][NextCollect]_vars

\* ---- properties ----

RECURSIVE Flatten(_)
Flatten(ss) == IF ss = <<>> THEN <<>> ELSE Head(ss) \o Flatten(Tail(ss))

IsPrefix(s, t) == Len(s) <= Len(t) /\ SubSeq(t, 1, Len(s)) = s

Readable(page, r) == r <= Len(page.cards) /\ page.cards[r].fail = "none"

\* The smallest rank of 1..m with an unreadable lookup, or one past the last
\* rank of the scan when there is none.
FirstUnreadable(page, m) ==
    LET bad == { r \in 1..m : ~Readable(page, r) }
    IN IF bad = {} THEN Max(m, 0) + 1
       ELSE CHOOSE r \in bad : \A q \in bad : r <= q

WriteStarted == pc \in {"to_csv", "done"} \/ error = "WriteError"

\* C1: collect_for_author scans ranks 1..max_videos and stops at the first
\* rank f with a failing lookup: it returns exactly the records of ranks
\* 1..f-1 (all of 1..max_videos when none fails), has looked up no rank
\* beyond f, and raises nothing.
C1_EarlyExitOnFirstFailure ==
    /\ pc \in {"extract", "return"} => error = "none"
    /\ pc = "extract" =>
          /\ lookedUp = 1..(rank - 1)
          /\ \A r \in 1..(rank - 1) : Readable(dom, r)
    /\ pc = "return" =>
          LET f == FirstUnreadable(dom, max_videos)
              a == authors[author_i]
          IN /\ Len(collected) = f - 1
             /\ \A r \in 1..(f - 1) :
                   /\ collected[r].rank = r
                   /\ collected[r].author = dom.nickname
                   /\ collected[r].title = dom.cards[r].title
                   /\ collected[r].publish_date = dom.cards[r].subtitle
                   /\ collected[r].category =
                        (IF "category" \in DOMAIN a THEN a.category ELSE "")
             /\ lookedUp = 1..Min(f, max_videos)

\* C1 witness: cards at ranks 1..3, rank 2 unreadable, max_videos = 3, and
\* the call returned the record of rank 1 alone without looking at rank 3.
C1_Witness ==
    /\ pc = "return"
    /\ max_videos = 3
    /\ Len(dom.cards) = 3
    /\ Readable(dom, 1) /\ ~Readable(dom, 2) /\ Readable(dom, 3)
    /\ Len(collected) = 1
    /\ collected[1].rank = 1
    /\ lookedUp = {1, 2}

\* C2 as stated: during and after the loop the collected list is no longer
\* than max_videos, for every max_videos including max_videos <= 0, and its
\* rank fields are 1..k in ascending order.
C2_LengthAtMostM ==
    pc \in {"extract", "return"} =>
        /\ Len(collected) <= max_videos
        /\ \A i \in 1..Len(collected) : collected[i].rank = i

\* C2 amended: during and after the loop the collected list is no longer
\* than max(max_videos, 0), and its rank fields are exactly 1..k, ascending,
\* without gap or duplicate.
C2_LengthAtMostMaxM0 ==
    pc \in {"extract", "return"} =>
        /\ Len(collected) <= Max(max_videos, 0)
        /\ \A i \in 1..Len(collected) : collected[i].rank = i

\* C2 witness: a call with a negative max_videos returned the empty list.
C2_Witness ==
    /\ pc = "return"
    /\ max_videos < 0
    /\ collected = <<>>
    /\ lookedUp = {}

\* C3: an exception leaving collect_for_author is followed by exactly one
\* driver.quit() and by no further navigation; a loop that ends normally is
\* followed by exactly one driver.quit() too; quit is never called twice and
\* nothing runs after the end of main.
C3_QuitOnceAfterCollectError ==
    [][ /\ (pc = "raise" =>
              /\ quits = 0
              /\ quits' = 1
              /\ session' = "closed"
              /\ pc' = "aborted")
        /\ (pc = "finally" => quits = 0 /\ quits' = 1 /\ session' = "closed")
        /\ (error # "none" => navigated' = navigated)
        /\ quits' <= 1
        /\ pc \notin {"aborted", "done"} ]_vars

\* C3 witness: the second author's collection raised after the first one
\* was collected, and the run ended with the session released once.
C3_Witness ==
    /\ pc = "aborted"
    /\ Len(authors) = 2
    /\ Len(returned) = 1
    /\ error \in {"KeyError", "WebDriverException"}
    /\ quits = 1
    /\ session = "closed"

\* C4: in every run that launched a browser, the browser has been closed
\* exactly once when the run ends, whichever step failed.
C4_LaunchedBrowserClosedOnce ==
    (pc \in {"done", "aborted"} /\ opened >= 1) => quits = 1

\* C5: with an empty author list the run opens one session, closes it once,
\* navigates to no author and writes to every destination a file holding the
\* header row (category, author, rank, publish date, title, url) and no data
\* row.
C5_EmptyAuthorsHeaderOnly ==
    (pc = "done" /\ authors = <<>>) =>
        /\ opened = 1
        /\ quits = 1
        /\ navigated = <<>>
        /\ \A i \in 1..Len(Outputs) :
              /\ files[i].state = "written"
              /\ files[i].header = RecordKeys
              /\ files[i].data = <<>>

\* C6: when no unexpected error occurred, every author was navigated to once,
\* in input order, whether or not an earlier author's extraction stopped
\* early, and the accumulator is the concatenation, in author order, of the
\* lists each call returned, each in ascending rank order; the accumulator
\* only ever grows at its end.
C6_Accumulated ==
    (pc \in {"finally", "write_outputs", "to_csv", "done"} /\ session # "none") =>
        /\ Len(returned) = Len(authors)
        /\ Len(navigated) = Len(authors)
        /\ \A i \in 1..Len(authors) : navigated[i] = authors[i].author_id
        /\ rows = Flatten(returned)
        /\ \A i \in 1..Len(returned) : \A k \in 1..Len(returned[i]) :
              /\ returned[i][k].rank = k
              /\ returned[i][k].category =
                   (IF "category" \in DOMAIN authors[i]
                    THEN authors[i].category ELSE "")

C6_AppendOnly == [][IsPrefix(rows, rows')]_vars

C6_InOrderAppendOnly == []C6_Accumulated /\ C6_AppendOnly

\* C6 witness: the first author's extraction stopped at rank 1, the second
\* author was still processed and its records are the accumulator.
C6_Witness ==
    /\ pc = "done"
    /\ Len(authors) = 2
    /\ max_videos >= 1
    /\ returned[1] = <<>>
    /\ Len(returned[2]) >= 1
    /\ rows = returned[2]

\* C7: write_outputs is called at most once, only after the loop went through
\* every author and after driver.quit(), with the whole accumulator; a write
\* error is raised with the session closed; and no navigation, script or
\* element lookup happens unless the session is open.
C7_WriteState ==
    /\ write_calls <= 1
    /\ (write_calls >= 1 \/ WriteStarted \/ files # InitFiles) =>
          /\ session = "closed"
          /\ quits = 1
          /\ author_i = Len(authors) + 1
          /\ Len(returned) = Len(authors)
          /\ df.data = rows
          /\ rows = Flatten(returned)
    /\ \A i \in 1..Len(Outputs) :
          files[i] = InitFiles[i] \/ files[i] = Truncated
            \/ (files[i].state = "written" /\ files[i].data = rows)

C7_NoBrowserUseUnlessOpen ==
    [][ (session # "open" \/ session' # "open") => UNCHANGED <<browserVars, dom>> ]_vars

C7_WriteAfterClose == []C7_WriteState /\ C7_NoBrowserUseUnlessOpen

\* C7 witness: a write failed after rows were accumulated; the session was
\* already closed.
C7_Witness ==
    /\ pc = "aborted"
    /\ error = "WriteError"
    /\ write_calls = 1
    /\ rows # <<>>
    /\ session = "closed"

\* C8: a call of human_scroll with 0 <= min <= max draws a step count in
\* [min, max] and issues scrollBy commands, never more than that count, each
\* with a pixel delta in [300, 1200]; when it returns it has issued exactly
\* that many, then one scrollTo(0, 0), its last command, and no error is in
\* flight; with min = max = 0 it issues no scrollBy and the one scrollTo.
C8_HumanScrollCommands ==
    /\ tops <= 1
    /\ lastCmd.script = "scrollBy" => lastCmd.inRange
    /\ pc = "scroll" =>
          /\ steps >= scroll_min /\ steps <= scroll_max
          /\ scrolled <= steps
          /\ tops = 0
    /\ pc = "collected" =>
          /\ scrolled >= scroll_min /\ scrolled <= scroll_max
          /\ scrolled = steps
          /\ tops = 1
          /\ lastCmd.script = "scrollTo"
          /\ error = "none"
          /\ (scroll_max = 0 => scrolled = 0)

\* C8 witness: a call that scrolled at least once has returned.
C8_Witness ==
    /\ pc = "collected"
    /\ scrolled >= 1
    /\ scrolled = scroll_max
    /\ tops = 1
    /\ lastCmd.script = "scrollTo"

\* C9: the url of every collected record has no "?": it is the href up to
\* its first "?", the whole href when it has none; and a rank whose href
\* cannot be read yields no record and ends the extraction.
C9_UrlWithoutQuery ==
    pc \in {"extract", "return"} =>
        /\ \A i \in 1..Len(collected) :
              LET u == collected[i].url
                  h == dom.cards[collected[i].rank].href
              IN /\ \A k \in 1..Len(u) : u[k] # "?"
                 /\ IsPrefix(u, h)
                 /\ (Len(u) = Len(h) \/ h[Len(u) + 1] = "?")
        /\ \A r \in 1..Len(dom.cards) :
              dom.cards[r].fail = "href" =>
                  \A i \in 1..Len(collected) : collected[i].rank < r

\* C9 witness: a record was returned whose href carried a query string.
C9_Witness ==
    /\ pc = "return"
    /\ Len(collected) >= 1
    /\ \E k \in 1..Len(dom.cards[1].href) : dom.cards[1].href[k] = "?"
    /\ collected[1].url = <<"v">>

\* C10: write_outputs runs, and an output file changes, only in a run whose
\* browser launched and whose every collect_for_author call returned; after
\* a failed launch or a failed author no output file is created or modified.
C10_AllOrNothing ==
    /\ (write_calls >= 1 \/ files # InitFiles) =>
          /\ opened = 1
          /\ Len(returned) = Len(authors)
    /\ error \in {"StartupError", "KeyError", "WebDriverException"} =>
          /\ write_calls = 0
          /\ files = InitFiles
          /\ pc \in {"raise", "aborted"}

\* C10 witness: an author failed after rows were accumulated; the run ended
\* with the output files as they were.
C10_Witness ==
    /\ pc = "aborted"
    /\ error \in {"KeyError", "WebDriverException"}
    /\ rows # <<>>
    /\ write_calls = 0
    /\ files = InitFiles

====
